---- MODULE Spec2Model ----
(***************************************************************************)
(* Model of package realip (src/realip.go): the reserved-block table built *)
(* by init, the classifier isPrivateAddress and the resolver FromRequest   *)
(* with its deprecated alias RealIP.                                       *)
(*                                                                         *)
(* Go strings are TLA+ strings (sequences of characters); positions are    *)
(* 1-based here, so an index of 0 stands for Go's -1 ("not found").        *)
(* A Go (value, error) pair is a record; a nil slice is the empty tuple.   *)
(***************************************************************************)
EXTENDS Integers, Sequences, FiniteSets, TLC

VARIABLES
    cidrs,      \* var cidrs []*net.IPNet (realip.go:20); <<>> until init has run
    initDone,   \* whether the package's init function has run
    r,          \* the *http.Request the sequential caller holds
    handed,     \* that request as it was when the caller received it
    ret,        \* what the caller's last FromRequest/RealIP call returned
    first,      \* what the caller's first call on r returned
    fn,         \* which function the caller called last
    calls,      \* how many calls the caller has made on r (capped)
    probe,      \* the last direct isPrivateAddress call: input and outcome
    gpc,        \* per goroutine: position inside FromRequest
    greq,       \* per goroutine: the request it was handed
    gpos,       \* per goroutine: index of the next candidate to classify
    gret        \* per goroutine: the value its call returned

vars == <<cidrs, initDone, r, handed, ret, first, fn, calls, probe, gpc, greq, gpos, gret>>

(***************************************************************************)
(* Package strings                                                         *)
(***************************************************************************)

Char(s, i) == SubSeq(s, i, i)

Min(S) == CHOOSE x \in S : \A y \in S : x <= y

Max(S) == CHOOSE x \in S : \A y \in S : x >= y

\* strings.IndexByte, 1-based; 0 when c does not occur in s.
IndexByte(s, c) ==
    LET I == {i \in 1..Len(s) : Char(s, i) = c}
    IN  IF I = {} THEN 0 ELSE Min(I)

\* The last occurrence of c in s, 1-based; 0 when there is none.
LastIndexByte(s, c) ==
    LET I == {i \in 1..Len(s) : Char(s, i) = c}
    IN  IF I = {} THEN 0 ELSE Max(I)

ContainsRune(s, c) == IndexByte(s, c) # 0

\* strings.Contains(s, substr)
Contains(s, substr) ==
    \E i \in 1..(Len(s) - Len(substr) + 1) :
        SubSeq(s, i, i + Len(substr) - 1) = substr

\* strings.Split(s, sep) for a one-byte separator: Split("", sep) is [""].
RECURSIVE Split(_, _)
Split(s, sep) ==
    LET i == IndexByte(s, sep)
    IN  IF i = 0 THEN <<s>>
        ELSE <<SubSeq(s, 1, i - 1)>> \o Split(SubSeq(s, i + 1, Len(s)), sep)

\* The white space strings.TrimSpace removes.
WhiteSpace == {" ", "\t", "\n", "\r"}

\* strings.TrimLeft(s, cutset): drops EVERY leading character that is in cutset.
RECURSIVE TrimLeftSet(_, _)
TrimLeftSet(s, cut) ==
    IF Len(s) > 0 /\ Char(s, 1) \in cut
    THEN TrimLeftSet(SubSeq(s, 2, Len(s)), cut)
    ELSE s

\* strings.TrimRight(s, cutset): drops EVERY trailing character that is in cutset.
RECURSIVE TrimRightSet(_, _)
TrimRightSet(s, cut) ==
    IF Len(s) > 0 /\ Char(s, Len(s)) \in cut
    THEN TrimRightSet(SubSeq(s, 1, Len(s) - 1), cut)
    ELSE s

TrimSpace(s) == TrimRightSet(TrimLeftSet(s, WhiteSpace), WhiteSpace)

(***************************************************************************)
(* Package net: addresses are tuples of bytes, 4 or 16 long; nil is <<>>.  *)
(***************************************************************************)

DecDigits == "0123456789"

HexLower == "0123456789abcdef"

HexUpper == "0123456789ABCDEF"

IsDigit(c) == IndexByte(DecDigits, c) # 0

IsHex(c) == IndexByte(HexLower, c) # 0 \/ IndexByte(HexUpper, c) # 0

HexVal(c) ==
    IF IndexByte(HexLower, c) # 0 THEN IndexByte(HexLower, c) - 1
    ELSE IndexByte(HexUpper, c) - 1

\* The number of leading characters of s that satisfy the digit test.
RECURSIVE DigitRun(_, _)
DigitRun(s, hex) ==
    IF Len(s) > 0 /\ (IF hex THEN IsHex(Char(s, 1)) ELSE IsDigit(Char(s, 1)))
    THEN 1 + DigitRun(SubSeq(s, 2, Len(s)), hex)
    ELSE 0

\* The value of a string of decimal (base 10) or hexadecimal (base 16) digits.
RECURSIVE DigitsValue(_, _)
DigitsValue(s, base) ==
    IF Len(s) = 0 THEN 0
    ELSE DigitsValue(SubSeq(s, 1, Len(s) - 1), base) * base + HexVal(Char(s, Len(s)))

v4InV6Prefix == <<0, 0, 0, 0, 0, 0, 0, 0, 0, 0, 255, 255>>

Zeros(n) == [i \in 1..n |-> 0]

\* One dotted-decimal field: 1 to 3 digits, no leading zero, at most 255.
FieldOK(f) ==
    /\ Len(f) \in 1..3
    /\ DigitRun(f, FALSE) = Len(f)
    /\ (Len(f) > 1 => Char(f, 1) # "0")
    /\ DigitsValue(f, 10) <= 255

\* net.parseIPv4: the 16-byte IPv4-in-IPv6 form, or nil.
parseIPv4(s) ==
    LET f == Split(s, ".")
    IN  IF Len(f) = 4 /\ \A i \in 1..4 : FieldOK(f[i])
        THEN v4InV6Prefix \o [i \in 1..4 |-> DigitsValue(f[i], 10)]
        ELSE <<>>

\* One round of the loop of net.parseIPv6 over the rest s of the literal: ip
\* holds the bytes parsed so far (i = Len(ip)), ell the byte position of the
\* "::" or -1, c the number of hex digits s starts with, n their value and
\* rest what follows them. Yields [ok, ip, ell].
parseIPv6Tail(ip, ell, ip4) ==
    IF ip4 = <<>> THEN [ok |-> FALSE, ip |-> <<>>, ell |-> ell]
    ELSE [ok |-> TRUE, ip |-> ip \o SubSeq(ip4, 13, 16), ell |-> ell]

RECURSIVE parseIPv6Loop(_, _, _)
parseIPv6Round(s, ip, ell, c, n, rest) ==
    IF Len(ip) >= 16 THEN [ok |-> Len(s) = 0, ip |-> ip, ell |-> ell]
    ELSE IF c = 0 \/ c > 4 THEN [ok |-> FALSE, ip |-> <<>>, ell |-> ell]
    ELSE IF c < Len(s) /\ Char(s, c + 1) = "."
    THEN \* a trailing dotted-decimal IPv4 address
         IF (ell < 0 /\ Len(ip) # 12) \/ Len(ip) + 4 > 16
         THEN [ok |-> FALSE, ip |-> <<>>, ell |-> ell]
         ELSE parseIPv6Tail(ip, ell, parseIPv4(s))
    ELSE IF Len(rest) = 0
    THEN [ok |-> TRUE, ip |-> ip \o <<n \div 256, n % 256>>, ell |-> ell]
    ELSE IF Char(rest, 1) # ":" \/ Len(rest) = 1
    THEN [ok |-> FALSE, ip |-> <<>>, ell |-> ell]
    ELSE IF Char(rest, 2) = ":"
    THEN IF ell >= 0 THEN [ok |-> FALSE, ip |-> <<>>, ell |-> ell]
         ELSE IF Len(rest) = 2
         THEN [ok |-> TRUE, ip |-> ip \o <<n \div 256, n % 256>>, ell |-> Len(ip) + 2]
         ELSE parseIPv6Loop(SubSeq(rest, 3, Len(rest)),
                            ip \o <<n \div 256, n % 256>>, Len(ip) + 2)
    ELSE parseIPv6Loop(SubSeq(rest, 2, Len(rest)), ip \o <<n \div 256, n % 256>>, ell)

parseIPv6Digits(s, ip, ell, c) ==
    parseIPv6Round(s, ip, ell, c, DigitsValue(SubSeq(s, 1, c), 16), SubSeq(s, c + 1, Len(s)))

parseIPv6Loop(s, ip, ell) == parseIPv6Digits(s, ip, ell, DigitRun(s, TRUE))

\* The end of net.parseIPv6: the whole string was used (p.ok); a literal with
\* fewer than 16 bytes has its "::" expanded, one without "::" is nil, and so
\* is a "::" that stands for no group.
parseIPv6Expand(p) ==
    IF ~p.ok THEN <<>>
    ELSE IF Len(p.ip) < 16
    THEN IF p.ell < 0 THEN <<>>
         ELSE SubSeq(p.ip, 1, p.ell) \o Zeros(16 - Len(p.ip))
              \o SubSeq(p.ip, p.ell + 1, Len(p.ip))
    ELSE IF p.ell >= 0 THEN <<>>
    ELSE p.ip

\* net.parseIPv6: the 16 bytes of an IPv6 literal (no zone), or nil.
parseIPv6(s) ==
    IF s = "::" THEN Zeros(16)
    ELSE IF Len(s) >= 2 /\ SubSeq(s, 1, 2) = "::"
    THEN parseIPv6Expand(parseIPv6Loop(SubSeq(s, 3, Len(s)), <<>>, 0))
    ELSE parseIPv6Expand(parseIPv6Loop(s, <<>>, -1))

\* net.ParseIP: the first '.' or ':' of s decides the family.
ParseIP(s) ==
    LET d == IndexByte(s, ".")
        c == IndexByte(s, ":")
    IN  IF d = 0 /\ c = 0 THEN <<>>
        ELSE IF c = 0 \/ (d # 0 /\ d < c) THEN parseIPv4(s)
        ELSE parseIPv6(s)

\* IP.To4: the 4-byte form of an IPv4 address, or nil.
To4(ip) ==
    IF Len(ip) = 4 THEN ip
    ELSE IF Len(ip) = 16 /\ SubSeq(ip, 1, 12) = v4InV6Prefix THEN SubSeq(ip, 13, 16)
    ELSE <<>>

\* a & b on bytes
RECURSIVE BitAnd(_, _)
BitAnd(a, b) ==
    IF a = 0 \/ b = 0 THEN 0
    ELSE (a % 2) * (b % 2) + 2 * BitAnd(a \div 2, b \div 2)

\* The byte with its n high bits set, n in 0..8.
RECURSIVE HighBits(_)
HighBits(n) == IF n = 0 THEN 0 ELSE 128 + HighBits(n - 1) \div 2

\* net.CIDRMask(ones, bits)
CIDRMask(ones, bits) ==
    [i \in 1..(bits \div 8) |->
        IF ones >= 8 * i THEN 255
        ELSE IF ones <= 8 * (i - 1) THEN 0
        ELSE HighBits(ones - 8 * (i - 1))]

\* The nil *net.IPNet.
NilIPNet == [IP |-> <<>>, Mask |-> <<>>]

\* The network of address ip (4 or 16 bytes, nil when the address did not
\* parse) under a prefix length spelled mask.
maskedNetwork(ip, mask, n) ==
    IF \/ ip = <<>>
       \/ Len(mask) = 0
       \/ Len(mask) > 3
       \/ DigitRun(mask, FALSE) # Len(mask)
       \/ n > 8 * Len(ip)
    THEN NilIPNet
    ELSE [ IP |-> [k \in 1..Len(ip) |-> BitAnd(ip[k], CIDRMask(n, 8 * Len(ip))[k])],
           Mask |-> CIDRMask(n, 8 * Len(ip)) ]

\* The address part of a CIDR literal: 4 bytes when it parses as IPv4, else
\* what parseIPv6 makes of it.
cidrAddress(addr, ip4) == IF ip4 # <<>> THEN To4(ip4) ELSE parseIPv6(addr)

\* net.ParseCIDR, its second result: the network of "address/bits", or nil.
ParseCIDR(s) ==
    IF IndexByte(s, "/") = 0 THEN NilIPNet
    ELSE maskedNetwork(
             cidrAddress(SubSeq(s, 1, IndexByte(s, "/") - 1),
                         parseIPv4(SubSeq(s, 1, IndexByte(s, "/") - 1))),
             SubSeq(s, IndexByte(s, "/") + 1, Len(s)),
             DigitsValue(SubSeq(s, IndexByte(s, "/") + 1, Len(s)), 10))

\* (*IPNet).Contains
IPNetContains(n, ip) ==
    LET x == IF To4(ip) # <<>> THEN To4(ip) ELSE ip
    IN  /\ Len(x) = Len(n.IP)
        /\ \A i \in 1..Len(n.IP) : BitAnd(n.IP[i], n.Mask[i]) = BitAnd(x[i], n.Mask[i])

\* Mutant of SplitHostPort: the cut at the last colon, with no check of the form.
SplitHostPortLastColon(hostport) ==
    SubSeq(hostport, 1, LastIndexByte(hostport, ":") - 1)

\* net.SplitHostPort, its first result; "" whenever it reports an error.
SplitHostPort(hostport) ==
    LET i    == LastIndexByte(hostport, ":")
        end  == IndexByte(hostport, "]")
        host == IF Char(hostport, 1) = "[" THEN SubSeq(hostport, 2, end - 1)
                ELSE SubSeq(hostport, 1, i - 1)
        j    == IF Char(hostport, 1) = "[" THEN 2 ELSE 1
        k    == IF Char(hostport, 1) = "[" THEN end + 1 ELSE 1
    IN  IF i = 0 THEN ""
        ELSE IF Char(hostport, 1) = "[" /\ (end = 0 \/ end + 1 # i) THEN ""
        ELSE IF Char(hostport, 1) # "[" /\ ContainsRune(host, ":") THEN ""
        ELSE IF ContainsRune(SubSeq(hostport, j, Len(hostport)), "[") THEN ""
        ELSE IF ContainsRune(SubSeq(hostport, k, Len(hostport)), "]") THEN ""
        ELSE host

(***************************************************************************)
(* Package realip                                                          *)
(***************************************************************************)

\* Mutant of maxCidrBlocks: the 20-bit block written with a 16-bit mask.
maxCidrBlocksNarrow ==
    << "127.0.0.1/8", "10.0.0.0/8", "172.16.0.0/16", "192.168.0.0/16",
       "169.254.0.0/16", "::1/128", "fc00::/7", "fe80::/10" >>

\* Mutant of maxCidrBlocks: a literal ParseCIDR rejects, leaving a nil entry.
maxCidrBlocksMalformed ==
    << "127.0.0.1/8", "10.0.0.0/8", "172.16.0.0/12", "192.168.0.0/16",
       "169.254.0.0/16", "::1/128", "fc00::/7", "fe80::/110/" >>

\* The literal list of init (realip.go:23-32).
maxCidrBlocks ==
    << "127.0.0.1/8",
       "10.0.0.0/8",
       "172.16.0.0/12",
       "192.168.0.0/16",
       "169.254.0.0/16",
       "::1/128",
       "fc00::/7",
       "fe80::/10" >>

\* The table init leaves in cidrs: one ParseCIDR result per literal, its error
\* discarded, so a literal that does not parse leaves a nil entry.
cidrsAfterInit == [i \in 1..Len(maxCidrBlocks) |-> ParseCIDR(maxCidrBlocks[i])]

ErrNil == "nil"

ErrNotValid == "address is not valid"

\* isPrivateAddress (realip.go:47-60) from ipAddress, the result of ParseIP, on:
\* it reads the package variable cidrs. (Contains on a nil entry would panic;
\* init leaves none.)
classify(ipAddress) ==
    IF ipAddress = <<>> THEN [isPrivate |-> FALSE, err |-> ErrNotValid]
    ELSE IF \E i \in 1..Len(cidrs) : IPNetContains(cidrs[i], ipAddress)
    THEN [isPrivate |-> TRUE, err |-> ErrNil]
    ELSE [isPrivate |-> FALSE, err |-> ErrNil]

isPrivateAddress(address) == classify(ParseIP(address))

\* http.Header.Get: the first value stored under the key, "" when there is none.
HeaderGet(values) == IF Len(values) = 0 THEN "" ELSE values[1]

\* The test `!isPrivate && err == nil` of both scans.
Selected(address) == isPrivateAddress(address) = [isPrivate |-> FALSE, err |-> ErrNil]

NotFound == [found |-> FALSE, address |-> ""]

\* Mutant of returnOrGoOn: the error of isPrivateAddress is not looked at.
returnOrGoOnIgnoringErr(address, rest) ==
    IF ~isPrivateAddress(address).isPrivate
    THEN [found |-> TRUE, address |-> address]
    ELSE rest

\* One round of a scan's inner loop: return address when it is selected, else
\* go on with the rest of the scan.
returnOrGoOn(address, rest) ==
    IF Selected(address) THEN [found |-> TRUE, address |-> address] ELSE rest

\* What an outer loop does with the outcome of its inner loop.
foundOrGoOn(hit, rest) == IF hit.found THEN hit ELSE rest

\* Mutant of scanTokens: the tokens are classified without TrimSpace.
RECURSIVE scanTokensNoTrim(_, _)
scanTokensNoTrim(tokens, j) ==
    IF j > Len(tokens) THEN NotFound
    ELSE returnOrGoOn(tokens[j], scanTokensNoTrim(tokens, j + 1))

\* The inner loop of the X-Forwarded-For scan over the tokens of one value,
\* from token j on (realip.go:86-92).
RECURSIVE scanTokens(_, _)
scanTokens(tokens, j) ==
    IF j > Len(tokens) THEN NotFound
    ELSE returnOrGoOn(TrimSpace(tokens[j]), scanTokens(tokens, j + 1))

\* The outer loop of the X-Forwarded-For scan, from occurrence i on
\* (realip.go:85-93).
RECURSIVE scanForwardedFor(_, _)
scanForwardedFor(xForwardedFor, i) ==
    IF i > Len(xForwardedFor) THEN NotFound
    ELSE foundOrGoOn(scanTokens(Split(xForwardedFor[i], ","), 1),
                     scanForwardedFor(xForwardedFor, i + 1))

\* Mutant of stripped: one leading and one trailing character at most.
strippedOneLayer(c) ==
    LET t == TrimSpace(c[2])
        u == IF Len(t) > 0 /\ Char(t, 1) \in {"\"", "["} THEN SubSeq(t, 2, Len(t)) ELSE t
    IN  IF Len(u) > 0 /\ Char(u, Len(u)) \in {"]", "\""} THEN SubSeq(u, 1, Len(u) - 1) ELSE u

\* The address of a piece of the Forwarded header whose split on '=' is c
\* (realip.go:101).
stripped(c) == TrimRightSet(TrimLeftSet(TrimSpace(c[2]), {"\"", "["}), {"]", "\""})

\* The address a piece b of the Forwarded header yields (realip.go:98-101), as
\* a tuple: empty when the piece is passed over.
pieceAddress(b) ==
    IF Contains(b, "for") /\ Len(Split(b, "=")) = 2
    THEN <<stripped(Split(b, "="))>>
    ELSE <<>>

\* One round of the Forwarded scan's inner loop, a the tuple pieceAddress made.
pieceOrGoOn(a, rest) == IF Len(a) = 1 THEN returnOrGoOn(a[1], rest) ELSE rest

\* The inner loop of the Forwarded scan over the pieces of one group
\* (realip.go:97-108).
RECURSIVE scanPieces(_, _)
scanPieces(pieces, j) ==
    IF j > Len(pieces) THEN NotFound
    ELSE pieceOrGoOn(pieceAddress(pieces[j]), scanPieces(pieces, j + 1))

\* The outer loop of the Forwarded scan over the ';'-separated groups
\* (realip.go:96-109).
RECURSIVE scanForwarded(_, _)
scanForwarded(groups, i) ==
    IF i > Len(groups) THEN NotFound
    ELSE foundOrGoOn(scanPieces(Split(groups[i], ","), 1), scanForwarded(groups, i + 1))

\* The three header values FromRequest fetches (realip.go:65-67).
xRealIPOf(req) == HeaderGet(req.Header.XRealIP)

xForwardedForOf(req) == req.Header.XForwardedFor

forwardedOf(req) == HeaderGet(req.Header.Forwarded)

\* Mutant of AllAbsent: X-Forwarded-For is left out of the test.
AllAbsentIgnoringForwardedFor(req) == xRealIPOf(req) = "" /\ forwardedOf(req) = ""

\* The condition of realip.go:70.
AllAbsent(req) ==
    xRealIPOf(req) = "" /\ Len(xForwardedForOf(req)) = 0 /\ forwardedOf(req) = ""

\* The remote-address branch (realip.go:71-81).
remoteIPOf(RemoteAddr) ==
    IF ContainsRune(RemoteAddr, ":") THEN SplitHostPort(RemoteAddr) ELSE RemoteAddr

\* Mutant of returnOf: X-Real-IP is returned without its surrounding white space.
returnOfTrimmed(req, xff, fwd) ==
    IF AllAbsent(req) THEN [value |-> remoteIPOf(req.RemoteAddr), via |-> "remote"]
    ELSE IF xff.found THEN [value |-> xff.address, via |-> "xff"]
    ELSE IF fwd.found THEN [value |-> fwd.address, via |-> "forwarded"]
    ELSE [value |-> TrimSpace(xRealIPOf(req)), via |-> "realip"]

\* Mutant of returnOf: with nothing found and no X-Real-IP, the remote address
\* is returned.
returnOfRemoteFallback(req, xff, fwd) ==
    IF AllAbsent(req) THEN [value |-> remoteIPOf(req.RemoteAddr), via |-> "remote"]
    ELSE IF xff.found THEN [value |-> xff.address, via |-> "xff"]
    ELSE IF fwd.found THEN [value |-> fwd.address, via |-> "forwarded"]
    ELSE IF xRealIPOf(req) = "" THEN [value |-> remoteIPOf(req.RemoteAddr), via |-> "realip"]
    ELSE [value |-> xRealIPOf(req), via |-> "realip"]

\* FromRequest with the return statement it left by: value is what it returns,
\* via names the statement ("remote": line 81, "xff": line 90, "forwarded":
\* line 104, "realip": line 112); xff and fwd are the outcomes of the two scans.
returnOf(req, xff, fwd) ==
    IF AllAbsent(req) THEN [value |-> remoteIPOf(req.RemoteAddr), via |-> "remote"]
    ELSE IF xff.found THEN [value |-> xff.address, via |-> "xff"]
    ELSE IF fwd.found THEN [value |-> fwd.address, via |-> "forwarded"]
    ELSE [value |-> xRealIPOf(req), via |-> "realip"]

FromRequestAt(req) ==
    returnOf(req, scanForwardedFor(xForwardedForOf(req), 1),
                  scanForwarded(Split(forwardedOf(req), ";"), 1))

FromRequest(req) == FromRequestAt(req).value

\* Mutant of RealIP: only the remote address is looked at.
RealIPRemoteOnly(req) == remoteIPOf(req.RemoteAddr)

\* Deprecated: use FromRequest instead.
RealIP(req) == FromRequest(req)

\* FromRequest only reads its request: the request as the call leaves it.
requestAfterCall(req) == req

(***************************************************************************)
(* Inputs                                                                  *)
(***************************************************************************)

\* Most occurrences of the X-Forwarded-For header in one request.
MaxOccur == 2

\* Most calls the sequential caller makes on one request.
MaxCalls == 2

\* Goroutines calling FromRequest concurrently.
NumGoroutines == 2

\* Values one occurrence of X-Forwarded-For may carry.
XFFValues ==
    { "127.0.0.0, 144.12.54.87,119.14.55.11",
      "10.0.0.1,fc00::1",
      "junk, ,2001:db8::1 ",
      "" }

\* r.Header["X-Forwarded-For"]: nil, or up to MaxOccur values in header order.
XFFHeaders == UNION {[1..n -> XFFValues] : n \in 0..MaxOccur}

\* r.Header["Forwarded"]
ForwardedHeaders ==
    { <<>>,
      <<"for=127.0.0.0, for=119.14.55.11">>,
      <<"for=a=8.8.8.8;host=for.example;for=junk">>,
      <<"proto=https;by=8.8.8.8;for=192.168.0.1,forwarded-for= \"[[2001:db8::2]]\"",
        "for=1.1.1.1">> }

\* r.Header["X-Real-Ip"]
XRealIPHeaders == {<<>>, <<" 10.0.0.9 ">>}

\* r.RemoteAddr
RemoteAddrs == {"", "13.182.55.11:8080", "144.12.54.87", "::1", "[::1]:8080"}

Requests ==
    [ RemoteAddr : RemoteAddrs,
      Header : [ XRealIP : XRealIPHeaders,
                 XForwardedFor : XFFHeaders,
                 Forwarded : ForwardedHeaders ] ]

NoRequest ==
    [ RemoteAddr |-> "",
      Header |-> [XRealIP |-> <<>>, XForwardedFor |-> <<>>, Forwarded |-> <<>>] ]

NoReturn == [value |-> "", via |-> "none"]

Goroutines == 1..NumGoroutines

\* Decimal and hexadecimal text of a number, as the address literals spell it.
RECURSIVE Itoa(_)
Itoa(n) ==
    IF n < 10 THEN Char(DecDigits, n + 1)
    ELSE Itoa(n \div 10) \o Char(DecDigits, (n % 10) + 1)

RECURSIVE Hex(_)
Hex(n) ==
    IF n < 16 THEN Char(HexLower, n + 1)
    ELSE Hex(n \div 16) \o Char(HexLower, (n % 16) + 1)

\* Octets the IPv4 literals handed to isPrivateAddress are spelled from: the
\* addresses of TestIsPrivateAddr and the neighbours of every block's edges.
FirstOctets == {9, 10, 11, 126, 127, 128, 147, 169, 172, 192}

SecondOctets == {0, 12, 15, 16, 31, 32, 168, 254, 255}

LastOctets == {<<0, 0>>, <<56, 11>>, <<255, 255>>}

\* First and last 16-bit group of the IPv6 literals: 0, the edges of fc00::/7
\* (fbff, fc00, fdff, fe00) and of fe80::/10 (fe7f, fe80, febf, fec0), 2001.
FirstGroups == {0, 64511, 64512, 65023, 65024, 65151, 65152, 65215, 65216, 8193}

LastGroups == {0, 1, 2, 65535}

DottedQuad(o) == Itoa(o[1]) \o "." \o Itoa(o[2]) \o "." \o Itoa(o[3]) \o "." \o Itoa(o[4])

\* "g1::g8" with a zero group left out, as in "::1" and "fc00::".
Compressed(g1, g8) ==
    (IF g1 = 0 THEN "" ELSE Hex(g1)) \o "::" \o (IF g8 = 0 THEN "" ELSE Hex(g8))

NoProbe ==
    [ called |-> FALSE, address |-> "", family |-> "none", n |-> <<>>,
      out |-> [isPrivate |-> FALSE, err |-> ErrNil] ]

(***************************************************************************)
(* The candidates of a request, in the order the two scans classify them   *)
(***************************************************************************)

RECURSIVE Flatten(_)
Flatten(ss) == IF Len(ss) = 0 THEN <<>> ELSE Head(ss) \o Flatten(Tail(ss))

\* The trimmed tokens of every X-Forwarded-For value (realip.go:85-87).
XFFCandidates(xForwardedFor) ==
    Flatten([i \in 1..Len(xForwardedFor) |->
        LET t == Split(xForwardedFor[i], ",")
        IN  [j \in 1..Len(t) |-> TrimSpace(t[j])]])

\* The addresses of the Forwarded value's pieces (realip.go:96-101).
ForwardedCandidates(forwarded) ==
    LET groups == Split(forwarded, ";")
    IN  Flatten([i \in 1..Len(groups) |->
            LET pieces == Split(groups[i], ",")
            IN  Flatten([j \in 1..Len(pieces) |-> pieceAddress(pieces[j])])])

Candidates(req) ==
    XFFCandidates(xForwardedForOf(req)) \o ForwardedCandidates(forwardedOf(req))

(***************************************************************************)
(* State machine                                                           *)
(***************************************************************************)

Init ==
    /\ cidrs = <<>>
    /\ initDone = FALSE
    /\ r = NoRequest
    /\ handed = NoRequest
    /\ ret = NoReturn
    /\ first = ""
    /\ fn = "none"
    /\ calls = 0
    /\ probe = NoProbe
    /\ gpc = [g \in Goroutines |-> "idle"]
    /\ greq = [g \in Goroutines |-> NoRequest]
    /\ gpos = [g \in Goroutines |-> 0]
    /\ gret = [g \in Goroutines |-> ""]

callerVars == <<r, handed, ret, first, fn, calls>>

goVars == <<gpc, greq, gpos, gret>>

\* func init(): runs once, before any other function of the package.
init ==
    /\ ~initDone
    /\ cidrs' = cidrsAfterInit
    /\ initDone' = TRUE
    /\ UNCHANGED <<callerVars, probe, goVars>>

\* The caller receives request req and calls FromRequest(r).
CallFromRequest(req) ==
    /\ initDone
    /\ calls = 0
    /\ handed' = req
    /\ r' = requestAfterCall(req)
    /\ ret' = FromRequestAt(req)
    /\ first' = ret'.value
    /\ fn' = "FromRequest"
    /\ calls' = 1
    /\ UNCHANGED <<cidrs, initDone, probe, goVars>>

\* The caller receives request req and calls RealIP(r).
CallRealIP(req) ==
    /\ initDone
    /\ calls = 0
    /\ handed' = req
    /\ r' = requestAfterCall(req)
    /\ ret' = [value |-> RealIP(req), via |-> "RealIP"]
    /\ first' = ret'.value
    /\ fn' = "RealIP"
    /\ calls' = 1
    /\ UNCHANGED <<cidrs, initDone, probe, goVars>>

\* The caller calls FromRequest again on the request it holds.
FromRequestAgain ==
    /\ calls \in 1..(MaxCalls - 1)
    /\ r' = requestAfterCall(r)
    /\ ret' = FromRequestAt(r)
    /\ fn' = "FromRequest"
    /\ calls' = calls + 1
    /\ UNCHANGED <<cidrs, initDone, handed, first, probe, goVars>>

\* The caller calls RealIP again on the request it holds.
RealIPAgain ==
    /\ calls \in 1..(MaxCalls - 1)
    /\ r' = requestAfterCall(r)
    /\ ret' = [value |-> RealIP(r), via |-> "RealIP"]
    /\ fn' = "RealIP"
    /\ calls' = calls + 1
    /\ UNCHANGED <<cidrs, initDone, handed, first, probe, goVars>>

\* The caller is done with its request and waits for the next one.
NextRequest ==
    /\ calls >= 1
    /\ r' = NoRequest
    /\ handed' = NoRequest
    /\ ret' = NoReturn
    /\ first' = ""
    /\ fn' = "none"
    /\ calls' = 0
    /\ UNCHANGED <<cidrs, initDone, probe, goVars>>

Next ==
    \/ init
    \/ \E req \in Requests : CallFromRequest(req)
    \/ \E req \in Requests : CallRealIP(req)
    \/ FromRequestAgain
    \/ RealIPAgain
    \/ NextRequest

Spec == Init /\ [][Next]_vars

\* isPrivateAddress called on the dotted-decimal literal of four octets, or on
\* its IPv4-mapped IPv6 spelling "::ffff:a.b.c.d".
CallIsPrivateAddress4(o, mapped) ==
    /\ initDone
    /\ ~probe.called
    /\ LET address == (IF mapped THEN "::ffff:" ELSE "") \o DottedQuad(o)
       IN  probe' = [ called |-> TRUE, address |-> address, family |-> "v4",
                      n |-> o, out |-> isPrivateAddress(address) ]
    /\ UNCHANGED <<cidrs, initDone, callerVars, goVars>>

\* isPrivateAddress called on the IPv6 literal g1:0:0:0:0:0:0:g8.
CallIsPrivateAddress6(g1, g8) ==
    /\ initDone
    /\ ~probe.called
    /\ LET address == Compressed(g1, g8)
       IN  probe' = [ called |-> TRUE, address |-> address, family |-> "v6",
                      n |-> <<g1, 0, 0, 0, 0, 0, 0, g8>>,
                      out |-> isPrivateAddress(address) ]
    /\ UNCHANGED <<cidrs, initDone, callerVars, goVars>>

\* The outcome of the direct call has been used.
ProbeDone ==
    /\ probe.called
    /\ probe' = NoProbe
    /\ UNCHANGED <<cidrs, initDone, callerVars, goVars>>

ClassifierNext ==
    \/ init
    \/ ProbeDone
    \/ \E a \in FirstOctets, b \in SecondOctets, cd \in LastOctets, mapped \in BOOLEAN :
           CallIsPrivateAddress4(<<a, b>> \o cd, mapped)
    \/ \E g1 \in FirstGroups, g8 \in LastGroups : CallIsPrivateAddress6(g1, g8)

ClassifierSpec == Init /\ [][ClassifierNext]_vars

\* Requests handed to the concurrent goroutines.
ConcRequests ==
    { [ RemoteAddr |-> "13.182.55.11:8080",
        Header |-> [XRealIP |-> <<>>, XForwardedFor |-> <<>>, Forwarded |-> <<>>] ],
      [ RemoteAddr |-> "::1",
        Header |-> [ XRealIP |-> <<>>,
                     XForwardedFor |-> <<"junk, ,2001:db8::1 ">>,
                     Forwarded |-> <<>> ] ],
      [ RemoteAddr |-> "13.182.55.11:8080",
        Header |-> [ XRealIP |-> <<>>,
                     XForwardedFor |-> <<"10.0.0.1,fc00::1">>,
                     Forwarded |-> <<"for=127.0.0.0, for=119.14.55.11">> ] ],
      [ RemoteAddr |-> "",
        Header |-> [ XRealIP |-> <<" 10.0.0.9 ">>,
                     XForwardedFor |-> <<"10.0.0.1,fc00::1">>,
                     Forwarded |-> <<>> ] ] }

\* Goroutine g enters FromRequest(req): realip.go:65-82.
GoStart(g, req) ==
    /\ initDone
    /\ gpc[g] = "idle"
    /\ greq' = [greq EXCEPT ![g] = req]
    /\ IF AllAbsent(req)
       THEN /\ gret' = [gret EXCEPT ![g] = remoteIPOf(req.RemoteAddr)]
            /\ gpc' = [gpc EXCEPT ![g] = "done"]
            /\ gpos' = [gpos EXCEPT ![g] = 0]
       ELSE /\ gret' = [gret EXCEPT ![g] = ""]
            /\ gpc' = [gpc EXCEPT ![g] = "scan"]
            /\ gpos' = [gpos EXCEPT ![g] = 1]
    /\ UNCHANGED <<cidrs, initDone, callerVars, probe>>

\* Goroutine g classifies its next candidate: one isPrivateAddress call, reading
\* cidrs as it is now (realip.go:88-91 and 102-105).
GoClassify(g) ==
    /\ gpc[g] = "scan"
    /\ gpos[g] <= Len(Candidates(greq[g]))
    /\ LET address == Candidates(greq[g])[gpos[g]]
       IN  IF Selected(address)
           THEN /\ gret' = [gret EXCEPT ![g] = address]
                /\ gpc' = [gpc EXCEPT ![g] = "done"]
                /\ gpos' = gpos
           ELSE /\ gpos' = [gpos EXCEPT ![g] = gpos[g] + 1]
                /\ UNCHANGED <<gret, gpc>>
    /\ UNCHANGED <<cidrs, initDone, callerVars, probe, greq>>

\* Goroutine g has no candidate left and returns xRealIP (realip.go:112).
GoFallback(g) ==
    /\ gpc[g] = "scan"
    /\ gpos[g] > Len(Candidates(greq[g]))
    /\ gret' = [gret EXCEPT ![g] = xRealIPOf(greq[g])]
    /\ gpc' = [gpc EXCEPT ![g] = "done"]
    /\ UNCHANGED <<cidrs, initDone, callerVars, probe, greq, gpos>>

\* Goroutine g has used its result and is free for another request.
GoFinish(g) ==
    /\ gpc[g] = "done"
    /\ gpc' = [gpc EXCEPT ![g] = "idle"]
    /\ greq' = [greq EXCEPT ![g] = NoRequest]
    /\ gpos' = [gpos EXCEPT ![g] = 0]
    /\ gret' = [gret EXCEPT ![g] = ""]
    /\ UNCHANGED <<cidrs, initDone, callerVars, probe>>

ConcNext ==
    \/ init
    \/ \E g \in Goroutines, req \in ConcRequests : GoStart(g, req)
    \/ \E g \in Goroutines : GoClassify(g)
    \/ \E g \in Goroutines : GoFallback(g)
    \/ \E g \in Goroutines : GoFinish(g)

ConcSpec == Init /\ [][ConcNext]_vars

(***************************************************************************)
(* Reference notions the properties are stated with. They are written      *)
(* down from the meaning of the words (fields between separators, text     *)
(* between the outermost kept characters, literals known to be public),    *)
(* not from the code's loops.                                              *)
(***************************************************************************)

\* The fields of s between occurrences of the character sep, in order.
RefFields(s, sep) ==
    LET B == {0} \cup {i \in 1..Len(s) : Char(s, i) = sep} \cup {Len(s) + 1}
        nth(k) == CHOOSE b \in B : Cardinality({x \in B : x < b}) = k - 1
    IN  [k \in 1..(Cardinality(B) - 1) |-> SubSeq(s, nth(k) + 1, nth(k + 1) - 1)]

\* s without its leading characters from L and, then, without its trailing
\* characters from R.
RefCut(s, L, R) ==
    LET A == {i \in 1..Len(s) : Char(s, i) \notin L}
        a == IF A = {} THEN Len(s) + 1 ELSE Min(A)
        B == {i \in a..Len(s) : Char(s, i) \notin R}
    IN  IF B = {} THEN "" ELSE SubSeq(s, a, Max(B))

RefTrim(s) == RefCut(s, WhiteSpace, WhiteSpace)

\* The address literals of the input sets, by what they are.
PublicLiterals ==
    { "144.12.54.87", "119.14.55.11", "2001:db8::1", "2001:db8::2", "8.8.8.8",
      "1.1.1.1", "13.182.55.11" }

ReservedLiterals == {"127.0.0.0", "10.0.0.1", "fc00::1", "192.168.0.1", "::1", "10.0.0.9"}

UnparseableLiterals ==
    {"", "junk", "for.example", "[2001:db8::2]", "[[2001:db8::2]]", " 10.0.0.9 "}

\* The X-Forwarded-For tokens of a request: occurrence i, position j inside
\* it, and the token without its surrounding white space.
RefTokens(req) ==
    LET xff == req.Header.XForwardedFor
    IN  UNION { { [i |-> i, j |-> j, address |-> RefTrim(RefFields(xff[i], ",")[j])] :
                    j \in 1..Len(RefFields(xff[i], ",")) } :
                i \in 1..Len(xff) }

\* The value of the Forwarded header: that of its first occurrence.
RefForwarded(req) ==
    IF req.Header.Forwarded = <<>> THEN "" ELSE req.Header.Forwarded[1]

RefXRealIP(req) == IF req.Header.XRealIP = <<>> THEN "" ELSE req.Header.XRealIP[1]

\* The pieces of the Forwarded value: group i between ';', piece j between ','
\* inside it.
RefPieces(req) ==
    LET groups == RefFields(RefForwarded(req), ";")
    IN  UNION { { [i |-> i, j |-> j, piece |-> RefFields(groups[i], ",")[j]] :
                    j \in 1..Len(RefFields(groups[i], ",")) } :
                i \in 1..Len(groups) }

\* A piece that names "for" and has exactly one '=': two parts.
RefForPiece(b) ==
    /\ \E k \in 1..(Len(b) - 2) : SubSeq(b, k, k + 2) = "for"
    /\ Cardinality({k \in 1..Len(b) : Char(b, k) = "="}) = 1

RefSecondPart(b) == SubSeq(b, (CHOOSE k \in 1..Len(b) : Char(b, k) = "=") + 1, Len(b))

\* The addresses of the Forwarded header as the code takes them: the second
\* part without surrounding white space, without ANY leading '"' or '[' and
\* without ANY trailing ']' or '"'.
RefForwardedAddresses(req) ==
    { [i |-> p.i, j |-> p.j,
       address |-> RefCut(RefTrim(RefSecondPart(p.piece)), {"\"", "["}, {"]", "\""})] :
      p \in {q \in RefPieces(req) : RefForPiece(q.piece)} }

\* The first element of a set of positioned addresses: occurrence (or group)
\* first, position inside it second.
LexFirst(S) == CHOOSE p \in S : \A q \in S : p.i < q.i \/ (p.i = q.i /\ p.j <= q.j)

PublicOf(S) == {p \in S : p.address \in PublicLiterals}

RefAllAbsent(req) ==
    RefXRealIP(req) = "" /\ req.Header.XForwardedFor = <<>> /\ RefForwarded(req) = ""

\* The state after a completed FromRequest call of the sequential caller.
Returned == fn = "FromRequest"

(***************************************************************************)
(* Properties                                                              *)
(***************************************************************************)

\* C1: whenever X-Forwarded-For has one or more values and one of its tokens
\* (occurrences in header order, tokens left to right, white space trimmed) is
\* a public address, FromRequest returns the first such token, by the
\* X-Forwarded-For scan's return, whatever X-Real-IP, Forwarded and RemoteAddr
\* are.
C1_ForwardedForFirstPublic ==
    (Returned /\ Len(r.Header.XForwardedFor) >= 1 /\ PublicOf(RefTokens(r)) # {})
        => /\ ret.value = LexFirst(PublicOf(RefTokens(r))).address
           /\ ret.via = "xff"

\* C1 witness: the first public token is the third, white-space padded token
\* of the second occurrence, after reserved, unparseable and empty tokens, and
\* Forwarded and X-Real-IP carry other public addresses.
C1_Witness ==
    /\ Returned
    /\ r.Header.XForwardedFor = <<"10.0.0.1,fc00::1", "junk, ,2001:db8::1 ">>
    /\ r.Header.Forwarded = <<"for=127.0.0.0, for=119.14.55.11">>
    /\ r.Header.XRealIP = <<" 10.0.0.9 ">>
    /\ r.RemoteAddr = "13.182.55.11:8080"
    /\ ret.value = "2001:db8::1"

\* The host of a host:port pair in the sense of net.SplitHostPort: the text
\* before the only colon of a bracket-free "host:port", or the text between the
\* brackets of "[host]:port"; "" for any other string.
RefPlain(s) == \A k \in 1..Len(s) : Char(s, k) \notin {":", "[", "]"}

RefNoBracket(s) == \A k \in 1..Len(s) : Char(s, k) \notin {"[", "]"}

RefHost(s) ==
    LET One == {i \in 1..Len(s) :
                   /\ Char(s, i) = ":"
                   /\ RefPlain(SubSeq(s, 1, i - 1))
                   /\ RefPlain(SubSeq(s, i + 1, Len(s)))}
        Two == {e \in 2..(Len(s) - 1) :
                   /\ Char(s, 1) = "["
                   /\ SubSeq(s, e, e + 1) = "]:"
                   /\ RefNoBracket(SubSeq(s, 2, e - 1))
                   /\ RefPlain(SubSeq(s, e + 2, Len(s)))}
    IN  IF One # {} THEN SubSeq(s, 1, (CHOOSE i \in One : TRUE) - 1)
        ELSE IF Two # {} THEN SubSeq(s, 2, (CHOOSE e \in Two : TRUE) - 1)
        ELSE ""

\* The remote address cut at its last colon.
RefLastColonCut(s) ==
    LET I == {i \in 1..Len(s) : Char(s, i) = ":"}
    IN  IF I = {} THEN s ELSE SubSeq(s, 1, Max(I) - 1)

RefDropFirst(s, c) == IF Len(s) > 0 /\ Char(s, 1) = c THEN SubSeq(s, 2, Len(s)) ELSE s

RefDropLast(s, c) ==
    IF Len(s) > 0 /\ Char(s, Len(s)) = c THEN SubSeq(s, 1, Len(s) - 1) ELSE s

RefOneLayer(s) ==
    RefDropLast(RefDropLast(RefDropFirst(RefDropFirst(s, "\""), "["), "\""), "]")

\* The addresses of the Forwarded header with one layer stripped.
RefOneLayerAddresses(req) ==
    { [i |-> p.i, j |-> p.j, address |-> RefOneLayer(RefTrim(RefSecondPart(p.piece)))] :
      p \in {q \in RefPieces(req) : RefForPiece(q.piece)} }

\* What the Forwarded scan returns when A are the addresses it classifies:
\* the first public one, and nothing when there is none.
ForwardedScanReturns(A) ==
    IF PublicOf(A) # {}
    THEN ret.value = LexFirst(PublicOf(A)).address /\ ret.via = "forwarded"
    ELSE ret.via # "forwarded"

ForwardedScanRuns ==
    Returned /\ PublicOf(RefTokens(r)) = {} /\ RefForwarded(r) # ""

\* C3 as stated: when X-Forwarded-For yields no public address and Forwarded
\* is non-empty, the addresses classified are the second parts of the two-part
\* "for" pieces with ONE layer of leading '"' or '[' and of trailing ']' or '"'
\* stripped, and the first public one of them is returned.
C3_Original_OneLayerStripped ==
    ForwardedScanRuns => ForwardedScanReturns(RefOneLayerAddresses(r))

\* C3 amended: as C3, but the address of a piece is its second part without
\* surrounding white space, without ANY of its leading '"' and '[' and without
\* ANY of its trailing ']' and '"'.
C3_ForwardedFirstPublic ==
    ForwardedScanRuns => ForwardedScanReturns(RefForwardedAddresses(r))

\* C3 witness: X-Forwarded-For holds reserved addresses only; the Forwarded
\* value has groups without "for", a reserved address, and then a public one
\* in quotes and two layers of brackets, after white space.
C3_Witness ==
    /\ Returned
    /\ r.Header.XForwardedFor = <<"10.0.0.1,fc00::1">>
    /\ Len(r.Header.Forwarded) = 2
    /\ r.Header.XRealIP = <<" 10.0.0.9 ">>
    /\ ret = [value |-> "2001:db8::2", via |-> "forwarded"]

\* C4: FromRequest leaves by its last return exactly when some header is
\* present and neither scan finds a public address, and it then returns the
\* X-Real-IP value as it is.
C4_RealIPFallback ==
    Returned =>
        /\ ret.via = "realip" <=>
               /\ ~RefAllAbsent(r)
               /\ PublicOf(RefTokens(r)) = {}
               /\ PublicOf(RefForwardedAddresses(r)) = {}
        /\ ret.via = "realip" => ret.value = RefXRealIP(r)

\* C4 witness: both scans run over reserved, unparseable and malformed
\* entries, and X-Real-IP is a reserved address with white space around it.
C4_Witness ==
    /\ Returned
    /\ r.Header.XForwardedFor = <<"10.0.0.1,fc00::1", "">>
    /\ r.Header.Forwarded = <<"for=a=8.8.8.8;host=for.example;for=junk">>
    /\ ret = [value |-> " 10.0.0.9 ", via |-> "realip"]

\* C5 as stated: an empty result only when X-Real-IP is empty, neither header
\* yields an address and RemoteAddr is empty.
C5_Original_EmptyOnlyIfRemoteEmpty ==
    (Returned /\ ret.value = "")
        => /\ RefXRealIP(r) = ""
           /\ PublicOf(RefTokens(r)) = {}
           /\ PublicOf(RefForwardedAddresses(r)) = {}
           /\ r.RemoteAddr = ""

\* C5 amended: an empty result only when X-Real-IP is empty and neither header
\* yields a public address; RemoteAddr may be non-empty then, but with all
\* headers absent only if it contains a colon.
C5_EmptyOnlyIfNothingFound ==
    (Returned /\ ret.value = "")
        => /\ RefXRealIP(r) = ""
           /\ PublicOf(RefTokens(r)) = {}
           /\ PublicOf(RefForwardedAddresses(r)) = {}
           /\ RefAllAbsent(r) =>
                  \/ r.RemoteAddr = ""
                  \/ \E k \in 1..Len(r.RemoteAddr) : Char(r.RemoteAddr, k) = ":"

\* C5 witness: an empty result beside a non-empty RemoteAddr.
C5_Witness ==
    /\ Returned
    /\ ret.value = ""
    /\ r.RemoteAddr = "13.182.55.11:8080"
    /\ r.Header.XForwardedFor = <<"10.0.0.1,fc00::1">>

\* Whether the address a direct isPrivateAddress call was spelled from lies in
\* one of the eight blocks, by the ranges the blocks stand for.
RefReserved(p) ==
    IF p.family = "v4"
    THEN \/ p.n[1] = 127
         \/ p.n[1] = 10
         \/ p.n[1] = 172 /\ p.n[2] \in 16..31
         \/ p.n[1] = 192 /\ p.n[2] = 168
         \/ p.n[1] = 169 /\ p.n[2] = 254
    ELSE \/ p.n = <<0, 0, 0, 0, 0, 0, 0, 1>>
         \/ p.n[1] \in 64512..65023
         \/ p.n[1] \in 65152..65215

\* C6: for an address literal that parses, isPrivateAddress returns (true, nil)
\* exactly when the address lies in one of the eight blocks, and (false, nil)
\* otherwise.
C6_ReservedExactly ==
    probe.called => probe.out = [isPrivate |-> RefReserved(probe), err |-> ErrNil]

\* C6 witness: the last address of 172.16.0.0/12 is classified reserved.
C6_Witness ==
    /\ probe.called
    /\ probe.address = "172.31.255.255"
    /\ probe.out = [isPrivate |-> TRUE, err |-> ErrNil]

\* C7: every candidate of the two scans that does not parse gets (false,
\* error) from isPrivateAddress and is never what a scan returns, and a public
\* candidate anywhere in the two headers is still found.
C7_UnparseableSkipped ==
    Returned =>
        LET T == RefTokens(r) \cup RefForwardedAddresses(r)
        IN  /\ \A p \in T :
                   p.address \in PublicLiterals \cup ReservedLiterals \cup UnparseableLiterals
            /\ \A p \in T :
                   p.address \in UnparseableLiterals =>
                       /\ isPrivateAddress(p.address) = [isPrivate |-> FALSE, err |-> ErrNotValid]
                       /\ ret.via \in {"xff", "forwarded"} => ret.value # p.address
            /\ (~RefAllAbsent(r) /\ PublicOf(T) # {}) =>
                   ret.via \in {"xff", "forwarded"} /\ ret.value \in PublicLiterals

\* C7 witness: an unparseable and an empty token precede the public one that
\* is returned.
C7_Witness ==
    /\ Returned
    /\ r.Header.XForwardedFor = <<"junk, ,2001:db8::1 ">>
    /\ r.Header.XRealIP = <<>>
    /\ ret = [value |-> "2001:db8::1", via |-> "xff"]

\* The eight blocks as network and mask bytes.
RefTable ==
    << [IP |-> <<127, 0, 0, 0>>, Mask |-> <<255, 0, 0, 0>>],
       [IP |-> <<10, 0, 0, 0>>, Mask |-> <<255, 0, 0, 0>>],
       [IP |-> <<172, 16, 0, 0>>, Mask |-> <<255, 240, 0, 0>>],
       [IP |-> <<192, 168, 0, 0>>, Mask |-> <<255, 255, 0, 0>>],
       [IP |-> <<169, 254, 0, 0>>, Mask |-> <<255, 255, 0, 0>>],
       [IP |-> Zeros(15) \o <<1>>, Mask |-> [i \in 1..16 |-> 255]],
       [IP |-> <<252>> \o Zeros(15), Mask |-> <<254>> \o Zeros(15)],
       [IP |-> <<254, 128>> \o Zeros(14), Mask |-> <<255, 192>> \o Zeros(14)] >>

\* C8: once init has run cidrs holds the eight blocks, none nil, in every
\* state, whatever calls are in progress; and every concurrent call returns
\* what FromRequest returns for its request.
C8_TableFixedCallsIndependent ==
    /\ initDone =>
           /\ Len(cidrs) = Len(RefTable)
           /\ \A i \in 1..Len(cidrs) : cidrs[i] # NilIPNet
           /\ cidrs = RefTable
    /\ \A g \in Goroutines : gpc[g] # "idle" => initDone
    /\ \A g \in Goroutines : gpc[g] = "done" => gret[g] = FromRequest(greq[g])

\* C8 witness: goroutine 1 has returned while goroutine 2 is in the middle of
\* its scan.
C8_Witness ==
    /\ gpc[1] = "done"
    /\ gret[1] = "119.14.55.11"
    /\ gpc[2] = "scan"
    /\ gpos[2] = 2

C10_RemoteAddrIrrelevant ==
    (Returned /\ ~RefAllAbsent(r)) =>
        FromRequest([r EXCEPT !.RemoteAddr = ""]) = ret.value

\* C10 witness: the only header is one empty X-Forwarded-For value; the result
\* is empty although RemoteAddr holds a public address.
C10_Witness ==
    /\ Returned
    /\ r.Header = [XRealIP |-> <<>>, XForwardedFor |-> <<"">>, Forwarded |-> <<>>]
    /\ r.RemoteAddr = "13.182.55.11:8080"
    /\ ret.value = ""

====
